---- MODULE Spec2Model ----
(***************************************************************************)
(* Portfolio tracker: the Dashboard's holdings aggregation                 *)
(* (loadPortfolioMetrics), which folds a portfolio's transactions, in      *)
(* ascending transaction_date order, into holdings, totals and a sector    *)
(* allocation.                                                             *)
(*                                                                         *)
(* Numbers: quantities, prices and fees are drawn from small ranges of     *)
(* non-negative integers, so sums, differences and products are exact.     *)
(* A JavaScript division a / b is kept as the reduced fraction             *)
(* [n |-> a, d |-> b]; d = 0 stands for the non-finite results of a        *)
(* division by zero (n = 0: NaN, n = 1: Infinity, n = -1: -Infinity).      *)
(***************************************************************************)
EXTENDS Integers, Sequences, FiniteSets, TLC

\* ------------------------------------------------------------------ bounds
MaxTxns == 2
MaxQty == 2
MaxPrice == 1
MaxFee == 1
MaxDate == 2

\* ------------------------------------------------------- exact arithmetic
Abs(x) == IF x < 0 THEN -x ELSE x

Sign(x) == IF x < 0 THEN -1 ELSE IF x = 0 THEN 0 ELSE 1

RECURSIVE GCD(_, _)
GCD(a, b) == IF b = 0 THEN a ELSE GCD(b, a % b)

\* a / b of two numbers
Div(a, b) ==
  IF b = 0 THEN [n |-> Sign(a), d |-> 0]
  ELSE LET g == GCD(Abs(a), Abs(b))
           s == Sign(b)
       IN [n |-> s * (Abs(a) \div g) * Sign(a), d |-> Abs(b) \div g]

\* (a / b) * 100
Percent(a, b) == Div(100 * a, b)

\* a number that is no quotient
Num(a) == Div(a, 1)

\* Number.isFinite
IsFinite(r) == r.d # 0

\* ----------------------------------------------------- the stocks collection
StockIds == {"s1", "s2", "s3", "s4"}

\* stocks/<id>: s4 is referenced by transactions but has no document
StockDocs ==
  [s1 |-> [exists |-> TRUE, symbol |-> "AAPL", sector |-> "Technology"],
   s2 |-> [exists |-> TRUE, symbol |-> "MSFT", sector |-> "Technology"],
   s3 |-> [exists |-> TRUE, symbol |-> "JPM", sector |-> ""],
   s4 |-> [exists |-> FALSE, symbol |-> "", sector |-> ""]]

Symbols == {StockDocs[s].symbol : s \in {x \in StockIds : StockDocs[x].exists}}

\* the fees of a document: none, or the largest fee
Fees == {0, MaxFee}

\* a transaction document
Txns ==
  [transaction_type : {"buy", "sell"},
   stock_id : StockIds,
   quantity : 0..MaxQty,
   price : 0..MaxPrice,
   fees : Fees,
   transaction_date : 1..MaxDate]

NoHolding == [none |-> TRUE]

NoMetrics == [none |-> TRUE]

VARIABLES
  pc,         \* position of loadPortfolioMetrics: idle, fold, done, failed
  holdings,   \* the holdings Map: symbol -> Holding, NoHolding when absent
  totalCost,  \* the running total cost
  metrics,    \* the Dashboard's metrics state, NoMetrics for null
  n,          \* number of documents of the query snapshot iterated so far
  lastDate,   \* transaction_date of the document iterated last
  branch,     \* branch the last loop iteration took
  buySum,     \* history: sum of quantity * price + fees of the buys processed
  stored,     \* the portfolio's transaction documents, in creation order
  docs,       \* querySnapshot.docs: the stored documents in the query's order
  reloads,    \* number of times the metrics were loaded again
  prevMetrics, \* history: the metrics the load before this one set
  stocksColl, \* collection(db, 'stocks'): the stock documents, by document
  txnColl,    \* collection(db, 'transactions'): the documents created
  localStocks, \* per session, the Portfolios page's `stocks` state (doc indices)
  spc,        \* per session, where its createTransaction / getOrCreate call is
  form,       \* per session, the symbol its call was given
  stockId,    \* per session, the stock its call resolved the symbol to
  authLoading, \* useAuth().loading
  user,       \* useAuth().user is present
  path,       \* the router's location
  selected,   \* Dashboard: selectedPortfolio
  loads,      \* Dashboard: the portfolios that have a metrics load in flight
  portfoliosLoaded, \* Dashboard: loadPortfolios has set the portfolios
  portfoliosColl, \* collection(db, 'portfolios'): the ids of the user's documents
  nextPid,    \* the next portfolio document id that addDoc gives
  portfolios, \* Portfolios page: the ids in the `portfolios` state
  pageSelected, \* Portfolios page: selectedPortfolio (0 is null)
  pcalls,     \* Portfolios page: createPortfolio / deletePortfolio calls awaiting
  prefsColl,  \* collection(db, 'user_preferences'): the user's documents
  preferences, \* Settings: the `preferences` state
  prefLoad,   \* Settings: where loadPreferences is
  prefSave    \* Settings: the savePreferences call awaiting, if any

storeVars == <<stored, docs, reloads, prevMetrics>>

stockVars == <<stocksColl, txnColl, localStocks, spc, form, stockId>>

appVars == <<authLoading, user, path, selected, loads, portfoliosLoaded>>

portfolioVars == <<portfoliosColl, nextPid, portfolios, pageSelected, pcalls>>

settingsVars == <<prefsColl, preferences, prefLoad, prefSave>>

moreVars == <<portfolioVars, settingsVars>>

pageVars == <<stockVars, appVars, moreVars>>

loadVars ==
  <<pc, holdings, totalCost, metrics, n, lastDate, branch, buySum, storeVars>>

vars == <<loadVars, pageVars>>

\* a Map that is the one of the load before
EmptyHoldings_Carried == holdings

\* new Map()
EmptyHoldings == [s \in Symbols |-> NoHolding]

\* ------------------------------------------------- the pages' first state
Sessions == {"u1", "u2"}

\* no stock and no transaction stored, no session has loaded or called
InitStockVars ==
  /\ stocksColl = <<>>
  /\ txnColl = <<>>
  /\ localStocks = [s \in Sessions |-> {}]
  /\ spc = [s \in Sessions |-> "idle"]
  /\ form = [s \in Sessions |-> <<>>]
  /\ stockId = [s \in Sessions |-> 0]

\* the app opens at /, which navigates to /dashboard, with the auth state
\* loading; useState(null) in Dashboard
InitAppVars ==
  /\ authLoading = TRUE
  /\ user = FALSE
  /\ path = "/dashboard"
  /\ selected = "none"
  /\ loads = {}
  /\ portfoliosLoaded = FALSE

\* useState of Settings: no id, the default choices
DefaultPreferences == [id |-> 0, risk_profile |-> "moderate"]

NoCall == [op |-> "none"]

\* no portfolio stored or listed; Settings mounted with its load in flight
InitMoreVars ==
  /\ portfoliosColl = {}
  /\ nextPid = 1
  /\ portfolios = {}
  /\ pageSelected = 0
  /\ pcalls = {}
  /\ prefsColl = <<>>
  /\ preferences = DefaultPreferences
  /\ prefLoad = "inflight"
  /\ prefSave = NoCall

\* ------------------------------------------------------------ the fold body
TxnCost(t) == t.quantity * t.price + t.fees

\* a created holding whose average includes the fees
NewHolding_AvgWithFees(stock_id, t) ==
  [stock |-> stock_id,
   quantity |-> t.quantity,
   averagePrice |-> Div(TxnCost(t), t.quantity),
   currentPrice |-> t.price,
   totalCost |-> TxnCost(t),
   currentValue |-> t.quantity * t.price,
   unrealizedGain |-> 0,
   unrealizedGainPercent |-> Num(0),
   weight |-> Num(0)]

NewHolding(stock_id, t) ==
  [stock |-> stock_id,
   quantity |-> t.quantity,
   averagePrice |-> Num(t.price),
   currentPrice |-> t.price,
   totalCost |-> TxnCost(t),
   currentValue |-> t.quantity * t.price,
   unrealizedGain |-> 0,
   unrealizedGainPercent |-> Num(0),
   weight |-> Num(0)]

\* a later buy whose fees are left out of the holding's cost
BuyExisting_NoFees(h, t) ==
  LET newQuantity == h.quantity + t.quantity
      newTotalCost == h.totalCost + t.quantity * t.price
  IN [h EXCEPT !.quantity = newQuantity,
               !.totalCost = newTotalCost,
               !.averagePrice = Div(newTotalCost, newQuantity)]

BuyExisting(h, t) ==
  LET newQuantity == h.quantity + t.quantity
      newTotalCost == h.totalCost + TxnCost(t)
  IN [h EXCEPT !.quantity = newQuantity,
               !.totalCost = newTotalCost,
               !.averagePrice = Div(newTotalCost, newQuantity)]

\* a sell that keeps the holding whatever quantity is left
SellExisting_NeverRemoves(h, t) ==
  [h EXCEPT !.quantity = h.quantity - t.quantity]

\* a sell that also takes the proceeds off the cost basis
SellExisting_ReduceCost(h, t) ==
  LET q == h.quantity - t.quantity
  IN IF q <= 0 THEN NoHolding
     ELSE [h EXCEPT !.quantity = q,
                    !.totalCost = h.totalCost - t.quantity * h.currentPrice]

\* a sell that removes the holding only below zero
SellExisting_KeepZero(h, t) ==
  LET q == h.quantity - t.quantity
  IN IF q < 0 THEN NoHolding ELSE [h EXCEPT !.quantity = q]

SellExisting(h, t) ==
  LET q == h.quantity - t.quantity
  IN IF q <= 0 THEN NoHolding ELSE [h EXCEPT !.quantity = q]

\* which branch of the loop body a document takes
BranchOf(hs, t) ==
  IF ~StockDocs[t.stock_id].exists THEN "skip"
  ELSE LET existingHolding == hs[StockDocs[t.stock_id].symbol]
       IN IF t.transaction_type = "buy"
          THEN IF existingHolding # NoHolding THEN "add" ELSE "create"
          ELSE IF existingHolding = NoHolding THEN "ignore"
          ELSE IF existingHolding.quantity - t.quantity <= 0 THEN "remove"
          ELSE "reduce"

\* a loop body where a sell of a symbol not held opens a short position
ApplyHoldings_ShortOnSell(hs, t) ==
  IF ~StockDocs[t.stock_id].exists THEN hs
  ELSE LET symbol == StockDocs[t.stock_id].symbol
           existingHolding == hs[symbol]
       IN IF t.transaction_type = "buy"
          THEN IF existingHolding # NoHolding
               THEN [hs EXCEPT ![symbol] = BuyExisting(existingHolding, t)]
               ELSE [hs EXCEPT ![symbol] = NewHolding(t.stock_id, t)]
          ELSE IF existingHolding # NoHolding
               THEN [hs EXCEPT ![symbol] = SellExisting(existingHolding, t)]
               ELSE [hs EXCEPT ![symbol] =
                       [NewHolding(t.stock_id, t) EXCEPT !.quantity = 0 - t.quantity]]

\* the holdings Map after one iteration of the loop
ApplyHoldings(hs, t) ==
  IF ~StockDocs[t.stock_id].exists THEN hs
  ELSE LET symbol == StockDocs[t.stock_id].symbol
           existingHolding == hs[symbol]
       IN IF t.transaction_type = "buy"
          THEN IF existingHolding # NoHolding
               THEN [hs EXCEPT ![symbol] = BuyExisting(existingHolding, t)]
               ELSE [hs EXCEPT ![symbol] = NewHolding(t.stock_id, t)]
          ELSE IF t.transaction_type = "sell" /\ existingHolding # NoHolding
               THEN [hs EXCEPT ![symbol] = SellExisting(existingHolding, t)]
               ELSE hs

\* a running total cost that a sell takes its proceeds off
ApplyTotalCost_SellReduces(tc, t) ==
  IF ~StockDocs[t.stock_id].exists THEN tc
  ELSE IF t.transaction_type = "buy" THEN tc + TxnCost(t)
  ELSE tc - t.quantity * t.price

\* the running total cost after one iteration of the loop
ApplyTotalCost(tc, t) ==
  IF StockDocs[t.stock_id].exists /\ t.transaction_type = "buy"
  THEN tc + TxnCost(t)
  ELSE tc

\* ------------------------------------------------------- after the fold
Held(hs) == {s \in Symbols : hs[s] # NoHolding}

RECURSIVE SumValue(_, _)
SumValue(hs, S) ==
  IF S = {} THEN 0
  ELSE LET s == CHOOSE x \in S : TRUE
       IN hs[s].currentValue + SumValue(hs, S \ {s})

TotalValue(hs) == SumValue(hs, Held(hs))

\* a weight taken against the holding's cost instead of the total value
FinalizeHolding_WeightOfCost(h, totalValue) ==
  [h EXCEPT !.unrealizedGain = h.currentValue - h.totalCost,
            !.unrealizedGainPercent = Percent(h.currentValue - h.totalCost, h.totalCost),
            !.weight = Percent(h.currentValue, h.totalCost)]

FinalizeHolding(h, totalValue) ==
  [h EXCEPT !.unrealizedGain = h.currentValue - h.totalCost,
            !.unrealizedGainPercent = Percent(h.currentValue - h.totalCost, h.totalCost),
            !.weight = Percent(h.currentValue, totalValue)]

HoldingsArray(hs) ==
  [s \in Symbols |->
     IF hs[s] = NoHolding THEN NoHolding ELSE FinalizeHolding(hs[s], TotalValue(hs))]

SectorOf(h) ==
  IF StockDocs[h.stock].sector = "" THEN "Unknown" ELSE StockDocs[h.stock].sector

\* a sector map whose set overwrites the sector's value
SectorValue_Overwrite(hs, sector) ==
  hs[CHOOSE s \in Held(hs) : SectorOf(hs[s]) = sector].currentValue

SectorValue(hs, sector) ==
  SumValue(hs, {s \in Held(hs) : SectorOf(hs[s]) = sector})

\* a sector map seeded with the sector of every stock document
SectorAllocation_AllStocks(hs) ==
  {[sector |-> sec,
    value |-> SectorValue(hs, sec),
    percentage |-> Percent(SectorValue(hs, sec), TotalValue(hs))] :
     sec \in {SectorOf([stock |-> x]) : x \in {y \in StockIds : StockDocs[y].exists}}}

SectorAllocation(hs) ==
  {[sector |-> sec,
    value |-> SectorValue(hs, sec),
    percentage |-> Percent(SectorValue(hs, sec), TotalValue(hs))] :
     sec \in {SectorOf(hs[s]) : s \in Held(hs)}}

ComputeMetrics(hs, tc) ==
  [totalValue |-> TotalValue(hs),
   totalCost |-> tc,
   totalGain |-> TotalValue(hs) - tc,
   totalGainPercent |-> Percent(TotalValue(hs) - tc, tc),
   holdings |-> HoldingsArray(hs),
   sectorAllocation |-> SectorAllocation(hs)]

\* ------------------------------------------------------------------ actions
Init ==
  /\ pc = "idle"
  /\ holdings = [s \in Symbols |-> NoHolding]
  /\ totalCost = 0
  /\ metrics = NoMetrics
  /\ n = 0
  /\ lastDate = 1
  /\ branch = "none"
  /\ buySum = 0
  /\ stored = <<>>
  /\ docs = <<>>
  /\ reloads = 0
  /\ prevMetrics = NoMetrics
  /\ InitStockVars
  /\ InitAppVars
  /\ InitMoreVars

\* the query returned: a fresh Map and a zero total
StartLoad ==
  /\ pc = "idle"
  /\ pc' = "fold"
  /\ holdings' = EmptyHoldings
  /\ totalCost' = 0
  /\ n' = 0
  /\ lastDate' = 1
  /\ branch' = "none"
  /\ buySum' = 0
  /\ UNCHANGED <<metrics, storeVars, pageVars>>

\* the body of the loop over querySnapshot.docs, for one document
LoopBody(t) ==
  /\ pc = "fold"
  /\ t.transaction_date >= lastDate
  /\ n' = n + 1
  /\ lastDate' = t.transaction_date
  /\ branch' = BranchOf(holdings, t)
  /\ totalCost' = ApplyTotalCost(totalCost, t)
  /\ buySum' = IF BranchOf(holdings, t) \in {"add", "create"}
               THEN buySum + t.quantity * t.price + t.fees
               ELSE buySum
  /\ holdings' = ApplyHoldings(holdings, t)
  /\ UNCHANGED <<pc, metrics, storeVars, pageVars>>

\* one iteration of the loop over querySnapshot.docs
ProcessTxn(t) ==
  /\ n < MaxTxns
  /\ LoopBody(t)

\* the loop is over: totals, weights, sector allocation, setMetrics
Finish ==
  /\ pc = "fold"
  /\ pc' = "done"
  /\ metrics' = ComputeMetrics(holdings, totalCost)
  /\ UNCHANGED <<holdings, totalCost, n, lastDate, branch, buySum, storeVars, pageVars>>

\* getDocs or getDoc rejected: the catch logs, the function's locals are
\* dropped and metrics stay as they were
LoadFails ==
  /\ pc \in {"idle", "fold"}
  /\ pc' = "failed"
  /\ holdings' = [s \in Symbols |-> NoHolding]
  /\ totalCost' = 0
  /\ n' = 0
  /\ lastDate' = 1
  /\ branch' = "none"
  /\ buySum' = 0
  /\ UNCHANGED <<metrics, storeVars, pageVars>>

Next ==
  \/ StartLoad
  \/ \E t \in Txns : ProcessTxn(t)
  \/ Finish
  \/ LoadFails

Spec == Init /\ [][Next]_vars

\* ------------------------------------- loads of a stored list of documents
MaxReloads == 1

\* the documents a portfolio may hold: buys and sells of AAPL without fees,
\* and buys of the stock that has no document
StoredTxns ==
  {t \in Txns :
     /\ t.fees = 0
     /\ t.quantity \in {1, MaxQty}
     /\ t.price \in {0, MaxPrice}
     /\ t.transaction_date \in {1, MaxDate}
     /\ \/ t.stock_id = "s1"
        \/ t.stock_id = "s4" /\ t.transaction_type = "buy"
                             /\ t.quantity = 1 /\ t.price = 0}

StoredLists == UNION {[1..k -> StoredTxns] : k \in 0..MaxTxns}

\* orderBy('transaction_date', 'asc'): the orders the query may return the
\* documents in; among equal dates the order is the store's, which breaks
\* ties by document id and not by created_at
QueryOrders(list) ==
  {p \in [1..Len(list) -> 1..Len(list)] :
     /\ \A i, j \in 1..Len(list) : i # j => p[i] # p[j]
     /\ \A i, j \in 1..Len(list) :
          i < j => list[p[i]].transaction_date <= list[p[j]].transaction_date}

InitStored ==
  /\ pc = "idle"
  /\ holdings = [s \in Symbols |-> NoHolding]
  /\ totalCost = 0
  /\ metrics = NoMetrics
  /\ n = 0
  /\ lastDate = 1
  /\ branch = "none"
  /\ buySum = 0
  /\ stored \in StoredLists
  /\ \E p \in QueryOrders(stored) : docs = [i \in 1..Len(stored) |-> stored[p[i]]]
  /\ reloads = 0
  /\ prevMetrics = NoMetrics
  /\ InitStockVars
  /\ InitAppVars
  /\ InitMoreVars

\* the loop iterates the next document of the snapshot
ProcessDoc ==
  /\ n < Len(docs)
  /\ ProcessTxn(docs[n + 1])

\* the loop has iterated every document
FinishDocs ==
  /\ n = Len(docs)
  /\ Finish

\* the effect runs again for the same portfolio: same query, same documents
Reload ==
  /\ pc = "done"
  /\ reloads < MaxReloads
  /\ pc' = "fold"
  /\ holdings' = EmptyHoldings
  /\ totalCost' = 0
  /\ n' = 0
  /\ lastDate' = 1
  /\ branch' = "none"
  /\ buySum' = 0
  /\ reloads' = reloads + 1
  /\ prevMetrics' = metrics
  /\ UNCHANGED <<metrics, stored, docs, pageVars>>

NextStored ==
  \/ StartLoad
  \/ ProcessDoc
  \/ FinishDocs
  \/ Reload
  \/ LoadFails

SpecStored == InitStored /\ [][NextStored]_vars

\* ------------------------------------------------------- claim helpers
RECURSIVE SumFn(_, _)
SumFn(f, S) ==
  IF S = {} THEN 0
  ELSE LET x == CHOOSE y \in S : TRUE
       IN f[x] + SumFn(f, S \ {x})

SymbolOf(t) == StockDocs[t.stock_id].symbol

\* the documents of one type that the step just taken may have iterated
TxnsJustProcessed(type) ==
  [transaction_type : {type},
   stock_id : StockIds,
   quantity : 0..MaxQty,
   price : 0..MaxPrice,
   fees : Fees,
   transaction_date : {lastDate'}]

\* the step just taken is an iteration of the loop that took one of the branches
Took(branches) == pc = "fold" /\ pc' = "fold" /\ branch' \in branches

Resolved(t) == StockDocs[t.stock_id].exists

\* C1: after an aggregation run the reported totalValue equals the sum over
\* the remaining holdings of quantity x currentPrice, also when a held symbol
\* was bought again or partially sold.
C1_TotalValueIsQuantityTimesPrice ==
  pc = "done" =>
    metrics.totalValue =
      SumFn([s \in Held(metrics.holdings) |->
               metrics.holdings[s].quantity * metrics.holdings[s].currentPrice],
            Held(metrics.holdings))

\* C2: a portfolio with zero transactions yields no holdings, totalValue 0,
\* totalCost 0 and an empty sector allocation.
C2_EmptyPortfolio ==
  (pc = "done" /\ n = 0) =>
    /\ Held(metrics.holdings) = {}
    /\ metrics.totalValue = 0
    /\ metrics.totalCost = 0
    /\ metrics.sectorAllocation = {}

C2_Witness == pc = "done" /\ n = 0 /\ metrics # NoMetrics

\* C3: no percentage of an aggregation result comes from a division by zero:
\* totalGainPercent, each holding's unrealizedGainPercent and weight and each
\* sector's percentage are finite.
C3_NoDivisionByZero ==
  pc = "done" =>
    /\ IsFinite(metrics.totalGainPercent)
    /\ \A s \in Held(metrics.holdings) :
         /\ IsFinite(metrics.holdings[s].unrealizedGainPercent)
         /\ IsFinite(metrics.holdings[s].weight)
    /\ \A e \in metrics.sectorAllocation : IsFinite(e.percentage)

\* C4: a single buy of quantity q > 0 at price p with fees f on a symbol not
\* yet held gives a holding with quantity q, totalCost q*p+f, averagePrice
\* (q*p+f)/q, currentValue q*p and unrealizedGain -f.
C4_SingleBuy ==
  [][\A t \in Txns :
       (n = 0 /\ ProcessTxn(t) /\ Resolved(t) /\ t.transaction_type = "buy"
          /\ t.quantity > 0) =>
         LET h == HoldingsArray(holdings')[SymbolOf(t)]
         IN /\ h.quantity = t.quantity
            /\ h.totalCost = t.quantity * t.price + t.fees
            /\ h.averagePrice = Div(t.quantity * t.price + t.fees, t.quantity)
            /\ h.currentValue = t.quantity * t.price
            /\ h.unrealizedGain = 0 - t.fees]_vars

\* a sell of less than the held quantity
PartialSell(t) ==
  /\ ProcessTxn(t)
  /\ Resolved(t)
  /\ t.transaction_type = "sell"
  /\ holdings[SymbolOf(t)] # NoHolding
  /\ holdings[SymbolOf(t)].quantity > t.quantity

\* a sell of the held quantity or more
FullSell(t) ==
  /\ ProcessTxn(t)
  /\ Resolved(t)
  /\ t.transaction_type = "sell"
  /\ holdings[SymbolOf(t)] # NoHolding
  /\ t.quantity >= holdings[SymbolOf(t)].quantity

C5_Frame ==
  Took({"reduce"}) =>
  \A t \in TxnsJustProcessed("sell") :
    PartialSell(t) =>
      /\ holdings'[SymbolOf(t)] # NoHolding
      /\ holdings'[SymbolOf(t)].quantity = holdings[SymbolOf(t)].quantity - t.quantity
      /\ holdings'[SymbolOf(t)].averagePrice = holdings[SymbolOf(t)].averagePrice
      /\ holdings'[SymbolOf(t)].totalCost = holdings[SymbolOf(t)].totalCost

\* the run ends right after a partial sell left a single holding
EndsAfterPartialSell ==
  /\ Finish
  /\ branch = "reduce"
  /\ Cardinality(Held(holdings)) = 1

\* C5 (as stated): a sell of q on a symbol held in a quantity above q takes
\* exactly q off the quantity and leaves averagePrice and totalCost as they
\* were; when it is the only holding its weight is 100%.
C5_Original ==
  [][/\ C5_Frame
     /\ EndsAfterPartialSell =>
          \A s \in Held(holdings) :
            /\ metrics'.holdings[s].weight = Num(100)
            /\ metrics'.holdings[s].averagePrice = holdings[s].averagePrice
            /\ metrics'.holdings[s].totalCost = holdings[s].totalCost]_vars

\* C5 (amended): as stated, the weight being 100% when the only holding has
\* a current value above 0.
C5_PartialSell ==
  [][/\ C5_Frame
     /\ EndsAfterPartialSell =>
          \A s \in Held(holdings) :
            /\ metrics'.totalValue > 0 => metrics'.holdings[s].weight = Num(100)
            /\ metrics'.holdings[s].averagePrice = holdings[s].averagePrice
            /\ metrics'.holdings[s].totalCost = holdings[s].totalCost]_vars

C5_Witness ==
  /\ pc = "done"
  /\ branch = "reduce"
  /\ Cardinality(Held(metrics.holdings)) = 1
  /\ \A s \in Held(metrics.holdings) :
       /\ metrics.holdings[s].weight = Num(100)
       /\ metrics.holdings[s].quantity = 1
       /\ metrics.holdings[s].totalCost > 0

\* C6 (as stated, its consequence): every holding of an aggregation result
\* has a quantity strictly above 0.
C6_Original ==
  pc = "done" => \A s \in Held(metrics.holdings) : metrics.holdings[s].quantity > 0

\* C6 (amended): a sell of the held quantity or more removes the holding and
\* the run goes on; no holding has a negative quantity, no sell leaves a
\* holding of quantity 0, a quantity above 0 stays above 0 for as long as
\* the holding is held, and a result with every position sold out has no
\* holdings and totalValue 0.
C6_FullSellRemoves ==
  [][/\ Took({"remove"}) =>
          \A t \in TxnsJustProcessed("sell") :
            FullSell(t) => (holdings'[SymbolOf(t)] = NoHolding /\ pc' = "fold")
     /\ \A s \in Held(holdings') : holdings'[s].quantity >= 0
     /\ Took({"reduce", "remove"}) =>
          \A s \in Held(holdings') :
            holdings'[s] # holdings[s] => holdings'[s].quantity > 0
     /\ \A s \in Held(holdings) \cap Held(holdings') :
          holdings[s].quantity > 0 => holdings'[s].quantity > 0
     /\ (Finish /\ Held(holdings) = {}) =>
          (Held(metrics'.holdings) = {} /\ metrics'.totalValue = 0)]_vars

C6_Witness ==
  /\ pc = "done"
  /\ branch = "remove"
  /\ buySum > 0
  /\ Held(metrics.holdings) = {}
  /\ metrics.totalValue = 0

\* C7: the totalCost of an aggregation run is the sum of quantity*price + fees
\* over the buys processed; it never decreases during the fold and no sell
\* changes it.
C7_TotalCostIsBuySum ==
  [][/\ totalCost' = buySum'
     /\ (pc = "fold" /\ pc' = "fold") => totalCost' >= totalCost
     /\ Took({"reduce", "remove", "ignore", "skip"}) => totalCost' = totalCost
     /\ Finish => metrics'.totalCost = buySum]_vars

C7_Witness ==
  /\ pc = "done"
  /\ branch \in {"reduce", "remove"}
  /\ metrics.totalCost = buySum
  /\ metrics.totalCost > 0

\* C8: a remaining holding's currentPrice is the price of the transaction
\* processed last for its symbol, buy or sell, and its currentValue is
\* quantity x that price.
C8_CurrentPriceIsLastTxnPrice ==
  [][\A t \in Txns :
       (ProcessTxn(t) /\ Resolved(t) /\ holdings'[SymbolOf(t)] # NoHolding
          /\ BranchOf(holdings, t) # "ignore") =>
         LET h == HoldingsArray(holdings')[SymbolOf(t)]
         IN /\ h.currentPrice = t.price
            /\ h.currentValue = h.quantity * t.price]_vars

\* the result of the run that goes on with the documents a and then b
ResultAfter(a, b) ==
  ComputeMetrics(ApplyHoldings(ApplyHoldings(holdings, a), b),
                 ApplyTotalCost(ApplyTotalCost(totalCost, a), b))

\* C9: two buys of one symbol with the same transaction date give the same
\* aggregation result in either order.
C9_SameDateBuysCommute ==
  (pc = "fold" /\ n + 2 <= MaxTxns) =>
    \A a, b \in Txns :
      (/\ a.transaction_type = "buy" /\ b.transaction_type = "buy"
       /\ Resolved(a) /\ Resolved(b)
       /\ SymbolOf(a) = SymbolOf(b)
       /\ a.transaction_date = b.transaction_date
       /\ a.transaction_date >= lastDate) =>
        ResultAfter(a, b) = ResultAfter(b, a)

\* C10: the sector allocation has one entry per sector of the remaining
\* holdings, each with the sum of the currentValue of the sector's holdings
\* and with value / totalValue x 100 as its percentage, and the percentages
\* add up to 100 when totalValue > 0.
C10_SectorAllocation ==
  pc = "done" =>
    LET hs == metrics.holdings
        sa == metrics.sectorAllocation
        sectors == {SectorOf(hs[s]) : s \in Held(hs)}
    IN /\ {e.sector : e \in sa} = sectors
       /\ Cardinality(sa) = Cardinality(sectors)
       /\ \A e \in sa :
            /\ e.value =
                 SumFn([s \in Held(hs) |-> hs[s].currentValue],
                       {s \in Held(hs) : SectorOf(hs[s]) = e.sector})
            /\ e.percentage = Percent(e.value, metrics.totalValue)
       /\ metrics.totalValue > 0 =>
            SumFn([e \in sa |-> e.percentage.n * (metrics.totalValue \div e.percentage.d)], sa)
              = 100 * metrics.totalValue

C10_Witness ==
  /\ pc = "done"
  /\ metrics.totalValue > 0
  /\ Cardinality(metrics.sectorAllocation) = 2
  /\ \E e \in metrics.sectorAllocation : e.percentage = Div(200, 3)

\* ------------------------------------------ stocks: symbols and documents
MaxStocks == 2

\* symbols are strings: sequences of characters
Lower == <<"a", "p", "l", "m", "s", "f", "t">>
Upper == <<"A", "P", "L", "M", "S", "F", "T">>

\* the symbols a form or a caller may give
InputSymbols ==
  {<<"a", "a", "p", "l">>, <<"A", "a", "p", "L">>, <<"m", "s", "f", "t">>}

\* a character's upper-case form: lower-case letters change, no other does
UpperChar(c) ==
  IF \E i \in 1..Len(Lower) : Lower[i] = c
  THEN Upper[CHOOSE i \in 1..Len(Lower) : Lower[i] = c]
  ELSE c

\* a conversion that leaves the symbol as it was typed
ToUpperCase_AsTyped(sym) == sym

\* String.prototype.toUpperCase
ToUpperCase(sym) == [k \in 1..Len(sym) |-> UpperChar(sym[k])]

\* calls in flight that will add a stock document / a transaction document
CreatesInFlight == Cardinality({s \in Sessions : spc[s] = "create"})
TxnsInFlight == Cardinality({s \in Sessions : spc[s] = "addTxn"})

\* loadStocks: the page's list becomes the documents of the collection
LoadStocks(s) ==
  /\ spc[s] = "idle"
  /\ localStocks[s] # 1..Len(stocksColl)
  /\ localStocks' = [localStocks EXCEPT ![s] = 1..Len(stocksColl)]
  /\ UNCHANGED <<stocksColl, txnColl, spc, form, stockId, loadVars, appVars, moreVars>>

\* createTransaction up to the first await that follows the stock: the symbol
\* is looked up in the page's list; when it is not there a stock document is
\* added and appended to the list
CreateTransactionStock(s, sym) ==
  LET existing == {i \in localStocks[s] : stocksColl[i].symbol = ToUpperCase(sym)}
      newId == Len(stocksColl) + 1
  IN /\ spc[s] = "idle"
     /\ Len(txnColl) + TxnsInFlight < MaxTxns
     /\ form' = [form EXCEPT ![s] = sym]
     /\ spc' = [spc EXCEPT ![s] = "addTxn"]
     /\ IF existing # {}
        THEN /\ \E i \in existing : stockId' = [stockId EXCEPT ![s] = i]
             /\ UNCHANGED <<stocksColl, localStocks>>
        ELSE /\ Len(stocksColl) + CreatesInFlight < MaxStocks
             /\ stocksColl' = Append(stocksColl, [symbol |-> ToUpperCase(sym)])
             /\ stockId' = [stockId EXCEPT ![s] = newId]
             /\ localStocks' = [localStocks EXCEPT ![s] = localStocks[s] \cup {newId}]
     /\ UNCHANGED <<txnColl, loadVars, appVars, moreVars>>

\* createTransaction: the transaction document is added with the stock's id
\* and the form is reset
CreateTransactionTxn(s) ==
  /\ spc[s] = "addTxn"
  /\ txnColl' = Append(txnColl, [stock_id |-> stockId[s]])
  /\ spc' = [spc EXCEPT ![s] = "idle"]
  /\ form' = [form EXCEPT ![s] = <<>>]
  /\ stockId' = [stockId EXCEPT ![s] = 0]
  /\ UNCHANGED <<stocksColl, localStocks, loadVars, appVars, moreVars>>

\* createTransaction: adding the transaction document fails, the catch alerts
CreateTransactionFails(s) ==
  /\ spc[s] = "addTxn"
  /\ spc' = [spc EXCEPT ![s] = "idle"]
  /\ form' = [form EXCEPT ![s] = <<>>]
  /\ stockId' = [stockId EXCEPT ![s] = 0]
  /\ UNCHANGED <<stocksColl, txnColl, localStocks, loadVars, appVars, moreVars>>

\* stocksService.getOrCreate up to the end of getBySymbol: a stock of the
\* upper-cased symbol is returned when the query finds one
GetBySymbol(s, sym) ==
  LET found == {i \in 1..Len(stocksColl) : stocksColl[i].symbol = ToUpperCase(sym)}
  IN /\ spc[s] = "idle"
     /\ form' = [form EXCEPT ![s] = sym]
     /\ IF found # {}
        THEN /\ \E i \in found : stockId' = [stockId EXCEPT ![s] = i]
             /\ stockId' # stockId \/ form' # form
             /\ UNCHANGED spc
        ELSE /\ Len(stocksColl) + CreatesInFlight < MaxStocks
             /\ spc' = [spc EXCEPT ![s] = "create"]
             /\ stockId' = [stockId EXCEPT ![s] = 0]
     /\ UNCHANGED <<stocksColl, txnColl, localStocks, loadVars, appVars, moreVars>>

\* stocksService.getOrCreate: create adds a document and returns it
CreateStock(s) ==
  /\ spc[s] = "create"
  /\ stocksColl' = Append(stocksColl, [symbol |-> ToUpperCase(form[s])])
  /\ stockId' = [stockId EXCEPT ![s] = Len(stocksColl) + 1]
  /\ spc' = [spc EXCEPT ![s] = "idle"]
  /\ UNCHANGED <<txnColl, localStocks, form, loadVars, appVars, moreVars>>

NextStocks ==
  \/ \E s \in Sessions : LoadStocks(s)
  \/ \E s \in Sessions, sym \in InputSymbols : CreateTransactionStock(s, sym)
  \/ \E s \in Sessions : CreateTransactionTxn(s)
  \/ \E s \in Sessions : CreateTransactionFails(s)
  \/ \E s \in Sessions, sym \in InputSymbols : GetBySymbol(s, sym)
  \/ \E s \in Sessions : CreateStock(s)

SpecStocks == Init /\ [][NextStocks]_vars

\* --------------------------------------------- one aggregation of a list
RECURSIVE FoldHoldings(_, _)
FoldHoldings(list, k) ==
  IF k = 0 THEN [s \in Symbols |-> NoHolding]
  ELSE ApplyHoldings(FoldHoldings(list, k - 1), list[k])

RECURSIVE FoldTotalCost(_, _)
FoldTotalCost(list, k) ==
  IF k = 0 THEN 0 ELSE ApplyTotalCost(FoldTotalCost(list, k - 1), list[k])

\* the result of one aggregation of a list of documents, in the list's order
Aggregate(list) ==
  ComputeMetrics(FoldHoldings(list, Len(list)), FoldTotalCost(list, Len(list)))

\* ------------------------------------------- the router and the Dashboard
Paths == {"/", "/login", "/register", "/dashboard", "/portfolios", "/settings"}

ProtectedPaths == {"/dashboard", "/portfolios", "/settings"}

LoadingDiv == [kind |-> "loading", to |-> ""]
NavigateTo(p) == [kind |-> "navigate", to |-> p]
Page(name) == [kind |-> "page", to |-> name]

\* a route guard that does not wait for the auth state
ProtectedRoute_IgnoresLoading(loading, u, children) ==
  IF ~u THEN NavigateTo("/login") ELSE Page(children)

ProtectedRoute(loading, u, children) ==
  IF loading THEN LoadingDiv
  ELSE IF ~u THEN NavigateTo("/login")
  ELSE Page(children)

\* a public route that shows its page also to a signed-in user
PublicRoute_ShowsWithUser(loading, u, children) ==
  IF loading THEN LoadingDiv ELSE Page(children)

PublicRoute(loading, u, children) ==
  IF loading THEN LoadingDiv
  ELSE IF u THEN NavigateTo("/dashboard")
  ELSE Page(children)

\* <Routes>: the element of the route that matches a path
RouteElement(p, loading, u) ==
  CASE p = "/login" -> PublicRoute(loading, u, "Login")
    [] p = "/register" -> PublicRoute(loading, u, "Register")
    [] p = "/dashboard" -> ProtectedRoute(loading, u, "Dashboard")
    [] p = "/portfolios" -> ProtectedRoute(loading, u, "Portfolios")
    [] p = "/settings" -> ProtectedRoute(loading, u, "Settings")
    [] p = "/" -> NavigateTo("/dashboard")

\* the location after the Navigate elements have replaced it
RECURSIVE Resolve(_, _, _)
Resolve(p, loading, u) ==
  IF RouteElement(p, loading, u).kind = "navigate"
  THEN Resolve(RouteElement(p, loading, u).to, loading, u)
  ELSE p

\* what is rendered: the loading div or a page
Screen ==
  IF RouteElement(path, authLoading, user).kind = "loading" THEN "Loading"
  ELSE RouteElement(path, authLoading, user).to

PortfolioIds == {"A", "B", "C"}

\* the transactions stored for each portfolio
PortfolioDocs ==
  [p \in PortfolioIds |->
     IF p = "A"
     THEN <<[transaction_type |-> "buy", stock_id |-> "s1", quantity |-> 1,
             price |-> 1, fees |-> 0, transaction_date |-> 1]>>
     ELSE IF p = "B"
     THEN <<[transaction_type |-> "buy", stock_id |-> "s2", quantity |-> 1,
             price |-> 1, fees |-> 1, transaction_date |-> 1]>>
     ELSE <<>>]

\* what loadPortfolioMetrics sets for a portfolio
MetricsOf(p) == Aggregate(PortfolioDocs[p])

nonAppVars ==
  <<pc, holdings, totalCost, n, lastDate, branch, buySum, storeVars, stockVars,
    moreVars>>

\* the Dashboard keeps its state while it stays mounted; a Dashboard that is
\* mounted anew, or not mounted, has the state of useState's initial values
DashboardAcross ==
  IF Screen = "Dashboard" /\ Screen' = "Dashboard"
  THEN UNCHANGED <<selected, loads, portfoliosLoaded, metrics>>
  ELSE /\ selected' = "none"
       /\ loads' = {}
       /\ portfoliosLoaded' = FALSE
       /\ metrics' = NoMetrics

\* the location is set to p (a link, the address bar)
Visit(p) ==
  /\ path' = Resolve(p, authLoading, user)
  /\ path' # path
  /\ UNCHANGED <<authLoading, user, nonAppVars>>
  /\ DashboardAcross

\* useAuth() gives new values
AuthChanges(loading, u) ==
  /\ <<loading, u>> # <<authLoading, user>>
  /\ authLoading' = loading
  /\ user' = u
  /\ path' = Resolve(path, loading, u)
  /\ UNCHANGED nonAppVars
  /\ DashboardAcross

\* loadPortfolios: the portfolios are set and the first one is selected, which
\* starts the load of its metrics
PortfoliosLoaded(p) ==
  /\ Screen = "Dashboard"
  /\ ~portfoliosLoaded
  /\ portfoliosLoaded' = TRUE
  /\ selected' = p
  /\ loads' = loads \cup {p}
  /\ UNCHANGED <<authLoading, user, path, metrics, nonAppVars>>

\* the select's onChange: another portfolio is selected, which starts the
\* load of its metrics; the loads in flight go on
SelectPortfolio(p) ==
  /\ Screen = "Dashboard"
  /\ portfoliosLoaded
  /\ p # selected
  /\ selected' = p
  /\ loads' = loads \cup {p}
  /\ UNCHANGED <<authLoading, user, path, portfoliosLoaded, metrics, nonAppVars>>

\* a loadPortfolioMetrics call in flight reaches setMetrics
MetricsLoaded(p) ==
  /\ Screen = "Dashboard"
  /\ p \in loads
  /\ metrics' = MetricsOf(p)
  /\ loads' = loads \ {p}
  /\ UNCHANGED <<authLoading, user, path, selected, portfoliosLoaded, nonAppVars>>

\* a loadPortfolioMetrics call in flight throws: the catch logs
MetricsLoadFails(p) ==
  /\ Screen = "Dashboard"
  /\ p \in loads
  /\ loads' = loads \ {p}
  /\ UNCHANGED <<authLoading, user, path, selected, portfoliosLoaded, metrics,
                 nonAppVars>>

NextApp ==
  \/ \E p \in Paths : Visit(p)
  \/ \E loading \in BOOLEAN, u \in BOOLEAN : AuthChanges(loading, u)
  \/ \E p \in PortfolioIds : PortfoliosLoaded(p)
  \/ \E p \in PortfolioIds : SelectPortfolio(p)
  \/ \E p \in PortfolioIds : MetricsLoaded(p)
  \/ \E p \in PortfolioIds : MetricsLoadFails(p)

SpecApp == Init /\ [][NextApp]_vars

\* ------------------------------------- loads of longer lists of one date
\* buys and sells of AAPL without fees and one buy of MSFT, all of one date
HistoryTxns ==
  {t \in Txns :
     /\ t.transaction_date = 1
     /\ \/ /\ t.stock_id = "s1"
           /\ t.quantity \in {1, MaxQty}
           /\ t.price \in {0, MaxPrice}
           /\ t.fees = 0
        \/ /\ t.stock_id = "s2"
           /\ t.transaction_type = "buy"
           /\ t.quantity = 1
           /\ t.price = MaxPrice
           /\ t.fees = MaxFee}

HistoryLists == UNION {[1..k -> HistoryTxns] : k \in 0..(MaxTxns + 1)}

InitHistory ==
  /\ pc = "idle"
  /\ holdings = [s \in Symbols |-> NoHolding]
  /\ totalCost = 0
  /\ metrics = NoMetrics
  /\ n = 0
  /\ lastDate = 1
  /\ branch = "none"
  /\ buySum = 0
  /\ stored \in HistoryLists
  /\ docs = stored
  /\ reloads = 0
  /\ prevMetrics = NoMetrics
  /\ InitStockVars
  /\ InitAppVars
  /\ InitMoreVars

\* the loop iterates the next document of the snapshot
IterateDoc ==
  /\ n < Len(docs)
  /\ LoopBody(docs[n + 1])

NextHistory ==
  \/ StartLoad
  \/ IterateDoc
  \/ FinishDocs
  \/ LoadFails

SpecHistory == InitHistory /\ [][NextHistory]_vars

\* ------------------------------- Portfolios page: calculatePortfolioValue
\* the quantity the forEach leaves under a stock_id: bought minus sold
RECURSIVE NetQuantity(_, _, _)
NetQuantity(list, k, id) ==
  IF k = 0 THEN 0
  ELSE NetQuantity(list, k - 1, id)
         + (IF list[k].stock_id # id THEN 0
            ELSE IF list[k].transaction_type = "buy" THEN list[k].quantity
            ELSE 0 - list[k].quantity)

\* the stock ids of the entries the filter keeps
CalculatePortfolioValue(list) ==
  {id \in {list[k].stock_id : k \in 1..Len(list)} :
     NetQuantity(list, Len(list), id) > 0}

\* ------------------------------------------- Portfolios page: portfolios
MaxPortfolios == 2

nonPortfolioVars == <<loadVars, appVars, settingsVars>>

\* the calls that may be awaiting: what they do, to which portfolio, and the
\* `portfolios` and `selectedPortfolio` of the render they were started in
PortfolioCalls ==
  [op : {"create", "delete"},
   id : 1..MaxPortfolios,
   closure : SUBSET (1..MaxPortfolios),
   selected : 0..MaxPortfolios]

\* createPortfolio up to its await: addDoc adds the document; the call keeps
\* the `portfolios` of the render it was started in
CreatePortfolioCall ==
  /\ nextPid <= MaxPortfolios
  /\ portfoliosColl' = portfoliosColl \cup {nextPid}
  /\ nextPid' = nextPid + 1
  /\ pcalls' = pcalls \cup {[op |-> "create", id |-> nextPid,
                             closure |-> portfolios, selected |-> pageSelected]}
  /\ UNCHANGED <<portfolios, pageSelected, stockVars, nonPortfolioVars>>

\* createPortfolio after its await: setPortfolios([newPortfolio, ...portfolios])
CreatePortfolioResolves(c) ==
  /\ c \in pcalls
  /\ c.op = "create"
  /\ portfolios' = {c.id} \cup c.closure
  /\ pcalls' = pcalls \ {c}
  /\ UNCHANGED <<portfoliosColl, nextPid, pageSelected, stockVars, nonPortfolioVars>>

\* deletePortfolio of a listed portfolio up to its await: deleteDoc removes the
\* portfolio document, and no other document
DeletePortfolioCall(id) ==
  /\ id \in portfolios
  /\ \A c \in pcalls : ~(c.op = "delete" /\ c.id = id)
  /\ portfoliosColl' = portfoliosColl \ {id}
  /\ pcalls' = pcalls \cup {[op |-> "delete", id |-> id,
                             closure |-> portfolios, selected |-> pageSelected]}
  /\ UNCHANGED <<nextPid, portfolios, pageSelected, stockVars, nonPortfolioVars>>

\* deletePortfolio after its await: setPortfolios(portfolios.filter(...)) and
\* setSelectedPortfolio(null) when the deleted one was selected
DeletePortfolioResolves(c) ==
  /\ c \in pcalls
  /\ c.op = "delete"
  /\ portfolios' = c.closure \ {c.id}
  /\ pageSelected' = IF c.selected = c.id THEN 0 ELSE pageSelected
  /\ pcalls' = pcalls \ {c}
  /\ UNCHANGED <<portfoliosColl, nextPid, stockVars, nonPortfolioVars>>

\* a portfolio card is clicked: setSelectedPortfolio(portfolio)
SelectCard(id) ==
  /\ id \in portfolios
  /\ id # pageSelected
  /\ pageSelected' = id
  /\ UNCHANGED <<portfoliosColl, nextPid, portfolios, pcalls, stockVars,
                 nonPortfolioVars>>

\* createTransaction: the transaction document gets the selected portfolio's
\* id (of the document's fields only portfolio_id is kept here)
CreateTransactionDoc ==
  /\ pageSelected # 0
  /\ Len(txnColl) < MaxTxns
  /\ txnColl' = Append(txnColl, [portfolio_id |-> pageSelected])
  /\ UNCHANGED <<stocksColl, localStocks, spc, form, stockId, portfolioVars,
                 nonPortfolioVars>>

\* deleteTransaction of a transaction of the selected portfolio
DeleteTransactionDoc(k) ==
  /\ k \in 1..Len(txnColl)
  /\ txnColl[k].portfolio_id = pageSelected
  /\ txnColl' = [i \in 1..(Len(txnColl) - 1) |->
                   IF i < k THEN txnColl[i] ELSE txnColl[i + 1]]
  /\ UNCHANGED <<stocksColl, localStocks, spc, form, stockId, portfolioVars,
                 nonPortfolioVars>>

NextPortfolios ==
  \/ CreatePortfolioCall
  \/ \E c \in PortfolioCalls : CreatePortfolioResolves(c)
  \/ \E id \in 1..MaxPortfolios : DeletePortfolioCall(id)
  \/ \E c \in PortfolioCalls : DeletePortfolioResolves(c)
  \/ \E id \in 1..MaxPortfolios : SelectCard(id)
  \/ CreateTransactionDoc
  \/ \E k \in 1..MaxTxns : DeleteTransactionDoc(k)

SpecPortfolios == Init /\ [][NextPortfolios]_vars

\* ------------------------------------------------ Settings: preferences
MaxPrefDocs == 2

RiskProfiles == {"conservative", "moderate", "aggressive"}

nonSettingsVars == <<loadVars, stockVars, appVars, portfolioVars>>

\* the risk profile select's onChange
SetRiskProfile(r) ==
  /\ r # preferences.risk_profile
  /\ preferences' = [preferences EXCEPT !.risk_profile = r]
  /\ UNCHANGED <<prefsColl, prefLoad, prefSave, nonSettingsVars>>

\* loadPreferences after getDocs: a document of the user, if there is one,
\* becomes the state with its id
LoadPreferencesResolves ==
  /\ prefLoad = "inflight"
  /\ prefLoad' = "done"
  /\ IF prefsColl # <<>>
     THEN \E i \in 1..Len(prefsColl) :
            preferences' = [id |-> i, risk_profile |-> prefsColl[i].risk_profile]
     ELSE UNCHANGED preferences
  /\ UNCHANGED <<prefsColl, prefSave, nonSettingsVars>>

\* loadPreferences: getDocs throws, the catch logs
LoadPreferencesFails ==
  /\ prefLoad = "inflight"
  /\ prefLoad' = "done"
  /\ UNCHANGED <<prefsColl, preferences, prefSave, nonSettingsVars>>

\* savePreferences up to its await, the button being enabled: updateDoc of
\* the document whose id the state has, else addDoc of a new document
SavePreferencesCall ==
  /\ prefSave.op = "none"
  /\ IF preferences.id # 0
     THEN /\ prefsColl' = [prefsColl EXCEPT ![preferences.id] =
                             [risk_profile |-> preferences.risk_profile]]
          /\ prefSave' = [op |-> "update", id |-> preferences.id,
                          closure |-> preferences]
     ELSE /\ Len(prefsColl) < MaxPrefDocs
          /\ prefsColl' = Append(prefsColl,
                                 [risk_profile |-> preferences.risk_profile])
          /\ prefSave' = [op |-> "create", id |-> Len(prefsColl) + 1,
                          closure |-> preferences]
  /\ UNCHANGED <<preferences, prefLoad, nonSettingsVars>>

\* savePreferences after its await: a created document's id is put into the
\* preferences of the render the call was started in; setLoading(false)
SavePreferencesResolves ==
  /\ prefSave.op # "none"
  /\ preferences' = IF prefSave.op = "create"
                    THEN [prefSave.closure EXCEPT !.id = prefSave.id]
                    ELSE preferences
  /\ prefSave' = NoCall
  /\ UNCHANGED <<prefsColl, prefLoad, nonSettingsVars>>

\* the page is left and opened again: useState's initial values and a new
\* loadPreferences; what a call of the old page sets is lost
RemountSettings ==
  /\ <<preferences, prefLoad, prefSave>> # <<DefaultPreferences, "inflight", NoCall>>
  /\ preferences' = DefaultPreferences
  /\ prefLoad' = "inflight"
  /\ prefSave' = NoCall
  /\ UNCHANGED <<prefsColl, nonSettingsVars>>

NextSettings ==
  \/ \E r \in RiskProfiles : SetRiskProfile(r)
  \/ LoadPreferencesResolves
  \/ LoadPreferencesFails
  \/ SavePreferencesCall
  \/ SavePreferencesResolves
  \/ RemountSettings

SpecSettings == Init /\ [][NextSettings]_vars

\* ------------------------------------------------ claims on stored lists
\* the documents of a list whose date is d, in the list's order
OfDate(list, d) == SelectSeq(list, LAMBDA t : t.transaction_date = d)

\* a list by ascending date, equal dates in the list's order
RECURSIVE ByDateUpTo(_, _)
ByDateUpTo(list, d) ==
  IF d = 0 THEN <<>> ELSE ByDateUpTo(list, d - 1) \o OfDate(list, d)

\* C11: a transaction whose stock document does not exist is surfaced to the
\* caller: no run that met one ends with its result set as if complete.
C11_UnresolvedStockSurfaced ==
  pc = "done" => \A i \in 1..Len(docs) : Resolved(docs[i])

\* C12: a second aggregation of the same stored documents gives the same
\* output as the first; nothing of the first run is carried into it.
C12_Idempotent ==
  (pc = "done" /\ reloads > 0) => metrics = prevMetrics

C12_Witness ==
  /\ pc = "done"
  /\ reloads > 0
  /\ metrics = prevMetrics
  /\ metrics.totalCost > 0
  /\ Held(metrics.holdings) # {}

\* C13: the documents are processed by ascending date and, among equal
\* dates, in creation order, so the result is the one of that order whatever
\* order the store keeps equal-date documents in.
C13_TiesInCreationOrder ==
  pc = "done" => metrics = Aggregate(ByDateUpTo(stored, MaxDate))

\* ------------------------------------------------ claims on single steps
\* a buy of a symbol that has a holding
BuyOnHolding(t) ==
  /\ ProcessTxn(t)
  /\ Resolved(t)
  /\ t.transaction_type = "buy"
  /\ holdings[SymbolOf(t)] # NoHolding

\* a buy of a symbol that has no holding
BuyOnNoHolding(t) ==
  /\ ProcessTxn(t)
  /\ Resolved(t)
  /\ t.transaction_type = "buy"
  /\ holdings[SymbolOf(t)] = NoHolding

\* a sell of a symbol that has no holding
SellOnNoHolding(t) ==
  /\ ProcessTxn(t)
  /\ Resolved(t)
  /\ t.transaction_type = "sell"
  /\ holdings[SymbolOf(t)] = NoHolding

\* a quotient times an integer
Times(r, k) == Div(r.n * k, r.d)

\* the three fields a buy on a held symbol sets
C18_Fields(h, g, t) ==
  /\ g # NoHolding
  /\ g.quantity = h.quantity + t.quantity
  /\ g.totalCost = h.totalCost + (t.quantity * t.price + t.fees)
  /\ g.averagePrice = Div(g.totalCost, g.quantity)

\* C18 as stated: a buy on a held symbol adds q to the quantity and q*p+f to
\* the totalCost and sets averagePrice to totalCost / quantity, and after it
\* averagePrice x quantity = totalCost.
C18_Original ==
  [][Took({"add"}) =>
     \A t \in TxnsJustProcessed("buy") :
       BuyOnHolding(t) =>
         /\ C18_Fields(holdings[SymbolOf(t)], holdings'[SymbolOf(t)], t)
         /\ Times(holdings'[SymbolOf(t)].averagePrice,
                  holdings'[SymbolOf(t)].quantity)
              = Num(holdings'[SymbolOf(t)].totalCost)]_vars

\* C18 (amended): a buy on a held symbol adds q to the quantity and q*p+f to
\* the totalCost and sets averagePrice to totalCost / quantity; when the new
\* quantity is above 0, averagePrice x quantity = totalCost.
C18_BuyOnExistingHolding ==
  [][Took({"add"}) =>
     \A t \in TxnsJustProcessed("buy") :
       BuyOnHolding(t) =>
         /\ C18_Fields(holdings[SymbolOf(t)], holdings'[SymbolOf(t)], t)
         /\ holdings'[SymbolOf(t)].quantity > 0 =>
              Times(holdings'[SymbolOf(t)].averagePrice,
                    holdings'[SymbolOf(t)].quantity)
                = Num(holdings'[SymbolOf(t)].totalCost)]_vars

C18_Witness ==
  /\ pc = "fold"
  /\ branch = "add"
  /\ \E s \in Held(holdings) :
       /\ holdings[s].quantity = 2
       /\ holdings[s].totalCost = 3
       /\ holdings[s].averagePrice = Div(3, 2)

\* C19: a buy of quantity q at price p with fees f on a symbol with no holding
\* creates a holding with quantity q, averagePrice exactly p and totalCost
\* q*p + f.
C19_BuyCreatesHolding ==
  [][Took({"create"}) =>
     \A t \in TxnsJustProcessed("buy") :
       BuyOnNoHolding(t) =>
         /\ holdings'[SymbolOf(t)] # NoHolding
         /\ holdings'[SymbolOf(t)].quantity = t.quantity
         /\ holdings'[SymbolOf(t)].averagePrice = Num(t.price)
         /\ holdings'[SymbolOf(t)].totalCost = t.quantity * t.price + t.fees]_vars

C19_Witness ==
  /\ pc = "fold"
  /\ branch = "create"
  /\ n = 1
  /\ \E s \in Held(holdings) :
       /\ holdings[s].quantity = 2
       /\ holdings[s].totalCost = 3
       /\ holdings[s].averagePrice = Num(1)

IsUpperCase(sym) == \A k \in 1..Len(sym) : \A i \in 1..Len(Lower) : sym[k] # Lower[i]

\* two symbols that differ at most in the case of their letters
SameIgnoringCase(x, y) ==
  /\ Len(x) = Len(y)
  /\ \A k \in 1..Len(x) :
       \/ x[k] = y[k]
       \/ \E i \in 1..Len(Lower) : {x[k], y[k]} = {Lower[i], Upper[i]}

\* the sessions whose call has resolved its symbol to a stock
HasStock(s) == stockId[s] # 0

\* the key loadPortfolioMetrics aggregates the session's transaction under
HoldingKey(s) == stocksColl[stockId[s]].symbol

\* C14: at most one stock document exists per symbol, after any interleaving
\* of createTransaction and getOrCreate calls, and a call on a symbol that has
\* a stock resolves to that stock.
C14_SymbolsUnique ==
  /\ \A i, j \in 1..Len(stocksColl) :
       stocksColl[i].symbol = stocksColl[j].symbol => i = j
  /\ \A s \in Sessions :
       HasStock(s) =>
         \A i \in 1..Len(stocksColl) :
           stocksColl[i].symbol = HoldingKey(s) => i = stockId[s]

\* C15: every stock document stores its symbol in upper case; a symbol given
\* in any case resolves to a stock whose stored symbol is its upper-case form;
\* two inputs that differ only in case get the same holding key.
C15_UpperCaseSymbols ==
  /\ \A i \in 1..Len(stocksColl) : IsUpperCase(stocksColl[i].symbol)
  /\ \A s \in Sessions :
       HasStock(s) =>
         /\ IsUpperCase(HoldingKey(s))
         /\ SameIgnoringCase(HoldingKey(s), form[s])
  /\ \A s, t \in Sessions :
       (HasStock(s) /\ HasStock(t) /\ SameIgnoringCase(form[s], form[t])) =>
         HoldingKey(s) = HoldingKey(t)
  /\ \A k \in 1..Len(txnColl) : IsUpperCase(stocksColl[txnColl[k].stock_id].symbol)

C15_Witness ==
  /\ HasStock("u1")
  /\ HasStock("u2")
  /\ form["u1"] = <<"a", "a", "p", "l">>
  /\ form["u2"] = <<"A", "a", "p", "L">>
  /\ HoldingKey("u1") = <<"A", "A", "P", "L">>
  /\ HoldingKey("u2") = <<"A", "A", "P", "L">>
  /\ Len(txnColl) > 0

\* --------------------------------------------- claims on the app's pages
\* C16: whenever no metrics load is in flight, the metrics the Dashboard
\* displays are the aggregation of the selected portfolio's transactions and
\* never those of another portfolio, also after the selection changed during
\* a load and after a load failed.
C16_MetricsOfSelected ==
  (Screen = "Dashboard" /\ selected # "none" /\ loads = {}
     /\ metrics # NoMetrics) =>
    metrics = MetricsOf(selected)

PageOf(p) ==
  CASE p = "/dashboard" -> "Dashboard"
    [] p = "/portfolios" -> "Portfolios"
    [] p = "/settings" -> "Settings"

\* a protected page is on screen only with the auth state loaded and a user
C17_PagesNeedUser ==
  /\ Screen \in {"Dashboard", "Portfolios", "Settings"} => (~authLoading /\ user)
  /\ (authLoading /\ path \in ProtectedPaths) => Screen = "Loading"
  /\ (~authLoading /\ ~user) => path \notin ProtectedPaths

\* C17: the Dashboard, Portfolios and Settings pages are rendered only when
\* the auth state has loaded and a user is present; while it loads a
\* protected route gives neither the page nor a redirect; with no user it
\* redirects to /login.
C17_ProtectedRoutes ==
  [][/\ C17_PagesNeedUser
     /\ C17_PagesNeedUser'
     /\ \A p \in ProtectedPaths :
          Visit(p) =>
            /\ authLoading => (path' = p /\ Screen' = "Loading")
            /\ (~authLoading /\ ~user) => (path' = "/login" /\ Screen' = "Login")
            /\ (~authLoading /\ user) => (path' = p /\ Screen' = PageOf(p))
     /\ \A loading \in BOOLEAN, u \in BOOLEAN :
          (AuthChanges(loading, u) /\ path \in ProtectedPaths) =>
            /\ loading => (path' = path /\ Screen' = "Loading")
            /\ (~loading /\ ~u) => (path' = "/login" /\ Screen' = "Login")
            /\ (~loading /\ u) => (path' = path /\ Screen' = PageOf(path))]_vars

C17_Witness ==
  /\ ~authLoading
  /\ user
  /\ Screen = "Settings"

\* --------------------------------------------- claims on orders and sums
\* a buy of a symbol followed, on the same date, by a sell of at least the
\* bought quantity
CrossesZero(list) ==
  /\ Len(list) = 2
  /\ list[1].transaction_type = "buy"
  /\ list[2].transaction_type = "sell"
  /\ list[1].stock_id = list[2].stock_id
  /\ Resolved(list[1])
  /\ list[1].transaction_date = list[2].transaction_date
  /\ list[1].quantity > 0
  /\ list[2].quantity >= list[1].quantity

\* C21: order matters across the zero-quantity boundary: a list [buy q,
\* sell q' >= q] of one symbol ends with no holding, and the same two
\* documents in the other order end with a holding of quantity q.
C21_OrderMattersAcrossZero ==
  (pc = "done" /\ CrossesZero(docs)) =>
    LET other == Aggregate(<<docs[2], docs[1]>>).holdings
    IN /\ Held(metrics.holdings) = {}
       /\ Held(other) = {SymbolOf(docs[1])}
       /\ other[SymbolOf(docs[1])].quantity = docs[1].quantity
       /\ metrics.holdings # other

C21_Witness ==
  /\ pc = "done"
  /\ CrossesZero(docs)
  /\ metrics.holdings # Aggregate(<<docs[2], docs[1]>>).holdings

\* C22: each holding's weight is currentValue / totalValue x 100; when
\* totalValue > 0 the weights of the holdings add up to 100, and a sole
\* holding has weight 100.
C22_WeightsSumTo100 ==
  pc = "done" =>
    LET hs == metrics.holdings
        tv == metrics.totalValue
    IN /\ \A s \in Held(hs) : hs[s].weight = Div(100 * hs[s].currentValue, tv)
       /\ tv > 0 =>
            /\ SumFn([s \in Held(hs) |-> hs[s].weight.n * (tv \div hs[s].weight.d)],
                     Held(hs)) = 100 * tv
            /\ \A s \in Held(hs) : Held(hs) = {s} => hs[s].weight = Num(100)

C22_Witness ==
  /\ pc = "done"
  /\ metrics.totalValue > 0
  /\ Cardinality(Held(metrics.holdings)) = 2
  /\ \E s \in Held(metrics.holdings) : metrics.holdings[s].weight = Div(100, 3)

\* --------------------------------------------- claims on longer histories
\* the branch the k-th document of a list takes
BranchAt(list, k) == BranchOf(FoldHoldings(list, k - 1), list[k])

\* the documents 1..k of a list that resolve to a symbol
OfSymbol(list, k, sym) ==
  {i \in 1..k : Resolved(list[i]) /\ SymbolOf(list[i]) = sym}

\* the last of the documents 1..k that removed the symbol's holding, or 0
LastRemoval(list, k, sym) ==
  LET removals == {i \in OfSymbol(list, k, sym) : BranchAt(list, i) = "remove"}
  IN IF removals = {} THEN 0
     ELSE CHOOSE i \in removals : \A j \in removals : j <= i

\* the documents after the symbol's last removal that took one of the branches
Since(list, k, sym, branches) ==
  {i \in OfSymbol(list, k, sym) :
     i > LastRemoval(list, k, sym) /\ BranchAt(list, i) \in branches}

\* C25: a holding reflects only the documents after the symbol's last
\* removal: its quantity is the bought minus the sold quantity since then,
\* its totalCost the cost of the buys since then, and the first buy after a
\* removal creates it with that buy's quantity, price and cost.
C25_FreshAfterRemoval ==
  pc = "fold" =>
    \A sym \in Held(holdings) :
      LET buys == Since(docs, n, sym, {"create", "add"})
          sells == Since(docs, n, sym, {"reduce"})
      IN /\ holdings[sym].quantity >= 0
         /\ holdings[sym].quantity =
              SumFn([i \in buys |-> docs[i].quantity], buys)
                - SumFn([i \in sells |-> docs[i].quantity], sells)
         /\ holdings[sym].totalCost =
              SumFn([i \in buys |-> docs[i].quantity * docs[i].price + docs[i].fees],
                    buys)
         /\ (branch = "create" /\ SymbolOf(docs[n]) = sym) =>
              /\ holdings[sym].quantity = docs[n].quantity
              /\ holdings[sym].totalCost =
                   docs[n].quantity * docs[n].price + docs[n].fees
              /\ holdings[sym].averagePrice = Num(docs[n].price)

C25_Witness ==
  /\ pc = "fold"
  /\ n = 3
  /\ branch = "create"
  /\ BranchAt(docs, 2) = "remove"
  /\ SymbolOf(docs[2]) = SymbolOf(docs[3])
  /\ docs[2].quantity > docs[1].quantity
  /\ docs[1].price > 0
  /\ holdings[SymbolOf(docs[3])].quantity = docs[3].quantity
  /\ docs[3].quantity > 0

\* the documents 1..k of a list that removed a holding
Removals(list, k) == {i \in 1..k : BranchAt(list, i) = "remove"}

\* the totalCost of the holdings that documents 1..k removed
RemovedCost(list, k) ==
  SumFn([i \in Removals(list, k) |->
           FoldHoldings(list, i - 1)[SymbolOf(list[i])].totalCost],
        Removals(list, k))

\* the sum of the totalCost of a result's holdings
HeldCost(m) == SumFn([s \in Held(m.holdings) |-> m.holdings[s].totalCost],
                     Held(m.holdings))

\* C26 as stated: the result's totalCost is at least the sum of its holdings'
\* totalCost, with equality exactly when no position was removed in the run.
C26_Original ==
  pc = "done" =>
    /\ metrics.totalCost >= HeldCost(metrics)
    /\ metrics.totalCost = HeldCost(metrics) <=> Removals(docs, Len(docs)) = {}

\* C26 (amended): the result's totalCost is the sum of its holdings'
\* totalCost plus the totalCost of the positions removed in the run: it is at
\* least the holdings' sum, equal to it when no position was removed, and
\* greater exactly when a removed position had a totalCost above 0.
C26_TotalCostCoversHoldings ==
  pc = "done" =>
    /\ metrics.totalCost = HeldCost(metrics) + RemovedCost(docs, Len(docs))
    /\ metrics.totalCost >= HeldCost(metrics)
    /\ Removals(docs, Len(docs)) = {} => metrics.totalCost = HeldCost(metrics)
    /\ metrics.totalCost > HeldCost(metrics) <=>
         \E i \in Removals(docs, Len(docs)) :
           FoldHoldings(docs, i - 1)[SymbolOf(docs[i])].totalCost > 0

C26_Witness ==
  /\ pc = "done"
  /\ Len(docs) = 3
  /\ Removals(docs, 3) # {}
  /\ Held(metrics.holdings) # {}
  /\ HeldCost(metrics) > 0
  /\ metrics.totalCost > HeldCost(metrics)

\* the stocks of the holdings of a Dashboard result
DashboardStocks(m) == {m.holdings[s].stock : s \in Held(m.holdings)}

\* C27: for the same stored transactions, the stocks that the Portfolios
\* page counts as holdings are exactly the stocks of the Dashboard's
\* aggregated holdings.
C27_PageMatchesDashboard ==
  pc = "done" => CalculatePortfolioValue(stored) = DashboardStocks(metrics)

\* ----------------------------------------- claims on the Portfolios page
\* C23: every stored transaction belongs to an existing portfolio: no
\* transaction document has the portfolio_id of a deleted portfolio.
C23_NoOrphanTransactions ==
  \A k \in 1..Len(txnColl) : txnColl[k].portfolio_id \in portfoliosColl

\* C24: once every createPortfolio and deletePortfolio call has completed,
\* the displayed list is the user's portfolios in the store.
C24_ListMatchesStore ==
  pcalls = {} => portfolios = portfoliosColl

\* -------------------------------------------------- claims on Settings
\* C28: at most one user_preferences document exists for the user, whatever
\* the interleaving of loadPreferences and savePreferences: a save updates
\* the existing document and never adds a second one.
C28_OnePreferencesDocument ==
  Len(prefsColl) <= 1

\* ---------------------------------------------------- claims on routing
\* the number of Navigate elements met from a path, counted up to fuel + 1
RECURSIVE RedirectCount(_, _, _, _)
RedirectCount(p, loading, u, fuel) ==
  IF RouteElement(p, loading, u).kind # "navigate" THEN 0
  ELSE IF fuel = 0 THEN 1
  ELSE 1 + RedirectCount(RouteElement(p, loading, u).to, loading, u, fuel - 1)

\* C29: with the auth state settled, from every start path the redirects end
\* after at most two on a rendered page: /login or /register only without a
\* user, a protected page only with a user; the location the router is at has
\* no redirect left.
C29_RoutingSettles ==
  ~authLoading =>
    /\ \A p \in Paths :
         LET end == RouteElement(Resolve(p, FALSE, user), FALSE, user)
         IN /\ RedirectCount(p, FALSE, user, 3) <= 2
            /\ end.kind = "page"
            /\ end.to \in {"Login", "Register"} => ~user
            /\ end.to \in {"Dashboard", "Portfolios", "Settings"} => user
    /\ RouteElement(path, authLoading, user).kind = "page"
    /\ Screen \in {"Login", "Register"} => ~user
    /\ Screen \in {"Dashboard", "Portfolios", "Settings"} => user

C29_Witness ==
  /\ ~authLoading
  /\ ~user
  /\ path = "/login"
  /\ Screen = "Login"
  /\ RedirectCount("/", FALSE, FALSE, 3) = 2

====
